---- MODULE Spec2Model ----
(***************************************************************************)
(* A model of casbin_async_sqlalchemy_adapter.Adapter: the rule table, the *)
(* transactional session scope and every adapter operation, each operation *)
(* taken as one step from call to return.                                  *)
(*                                                                         *)
(* The relational table is a set of rows; a row is a record                *)
(*   [id, ptype, v, del]                                                   *)
(* with v the six value columns v0..v5 (None where the column is NULL) and *)
(* del the soft-delete flag column (always FALSE when the adapter runs     *)
(* without a soft-delete attribute).                                       *)
(***************************************************************************)
EXTENDS Integers, Sequences, FiniteSets, TLC

\* ------------------------------------------------------------------ bounds
\* the storage hands out the ids 1..MaxRows (guards of the inserting operations)
MaxRows == 2

\* the value columns v0..v5 of CasbinRule
NumFields == 6

\* the NULL of a value column (Python None); no rule value equals it
None == "None"

VARIABLES
    softdelete,   \* self.softdelete_attribute is not None
    external,     \* self._external_session is not None
    db,           \* the table, as the session in use sees it
    filtered,     \* self._filtered
    last,         \* the operation that ran last and what it did
    tasks         \* the save_policy coroutines in flight, each at an await

vars == <<softdelete, external, db, filtered, last, tasks>>

\* ------------------------------------------------------------- sequences
RECURSIVE SeqsUpTo(_, _)
SeqsUpTo(S, n) ==
    IF n = 0 THEN {<<>>}
    ELSE LET shorter == SeqsUpTo(S, n - 1)
         IN  shorter \cup {Append(s, x) : s \in {t \in shorter : Len(t) = n - 1}, x \in S}

Range(s) == {s[i] : i \in 1..Len(s)}
Distinct(s) == \A i, j \in 1..Len(s) : i # j => s[i] # s[j]

Ids(tbl) == {r.id : r \in tbl}
MaxId(tbl) == IF tbl = {} THEN 0 ELSE CHOOSE m \in Ids(tbl) : \A i \in Ids(tbl) : i <= m
RowOf(tbl, id) == CHOOSE r \in tbl : r.id = id

\* rows in ascending id order
RECURSIVE ById(_)
ById(tbl) ==
    IF tbl = {} THEN <<>>
    ELSE LET m == MaxId(tbl) IN Append(ById({r \in tbl : r.id # m}), RowOf(tbl, m))

\* --------------------------------------------------------------- the rows
\* CasbinRule.__str__: ptype, then the values up to the first NULL
RECURSIVE StrFrom(_, _)
StrFrom(v, i) ==
    IF i > NumFields \/ v[i] = None THEN <<>> ELSE <<v[i]>> \o StrFrom(v, i + 1)
Str(line) == <<line.ptype>> \o StrFrom(line.v, 1)

\* a reading that keeps the elements Python takes as true
ToRuleTruthy(line) == SelectSeq(line.v, LAMBDA x : x # None /\ x # "")
\* rule = [element for element in fields_with_None if element is not None]
ToRule(line) == SelectSeq(line.v, LAMBDA x : x # None)

\* _save_policy_line: line = db_class(ptype=ptype); v{i} = rule[i]; the flag
\* column takes its default, False; the id is assigned by the storage
NewLine(id, ptype, rule) ==
    [id |-> id, ptype |-> ptype,
     v |-> [i \in 1..NumFields |-> IF i <= Len(rule) THEN rule[i] ELSE None],
     del |-> FALSE]

\* session.add / insert: the storage assigns the next id
Insert(tbl, ptype, rule) == tbl \cup {NewLine(MaxId(tbl) + 1, ptype, rule)}

\* an insert that skips a rule a not-deleted row of tbl already stores
RECURSIVE InsertAllDistinct(_, _, _)
InsertAllDistinct(tbl, ptype, rules) ==
    IF rules = <<>> THEN tbl
    ELSE InsertAllDistinct(
             IF \E r \in tbl : ~r.del /\ r = NewLine(r.id, ptype, Head(rules))
             THEN tbl ELSE Insert(tbl, ptype, Head(rules)),
             ptype, Tail(rules))
\* insert(db_class) executed with the list of rows: one row per element
RECURSIVE InsertAll(_, _, _)
InsertAll(tbl, ptype, rules) ==
    IF rules = <<>> THEN tbl
    ELSE InsertAll(Insert(tbl, ptype, Head(rules)), ptype, Tail(rules))

\* setattr(line, self.softdelete_attribute.name, True) for every line in ids
Flag(tbl, ids) == {IF r.id \in ids THEN [r EXCEPT !.del = TRUE] ELSE r : r \in tbl}

\* ------------------------------------------------------------ the queries
\* a query without the where clause of _softdelete_query
SoftdeleteQueryOff(rows) == rows
\* _softdelete_query: where(not_(softdelete_attribute)) when soft delete is on
SoftdeleteQuery(rows) == IF softdelete THEN {r \in rows : ~r.del} ELSE rows

\* where(ptype == ptype), where(v{i} == rule[i]) for every value of rule
MatchValues(rows, ptype, rule) ==
    {r \in rows : r.ptype = ptype /\ \A i \in 1..Len(rule) : r.v[i] = rule[i]}

\* ------------------------------------------------------ the session scope
NoTx == [opened |-> 0, commits |-> 0, rollbacks |-> 0, closed |-> 0]
TxSum(a, b) ==
    [opened |-> a.opened + b.opened, commits |-> a.commits + b.commits,
     rollbacks |-> a.rollbacks + b.rollbacks, closed |-> a.closed + b.closed]

\* what may go wrong in the storage during one scope
FailPoints == {"none", "execute", "commit"}

\* a scope that treats the external session as one of its own
SessionScopeIgnoreExternal(pre, body, fail) ==
    IF body.raised \/ fail = "commit"
    THEN [tbl |-> pre, raised |-> TRUE,
          tx |-> [opened |-> 1, commits |-> 0, rollbacks |-> 1, closed |-> 1]]
    ELSE [tbl |-> body.tbl, raised |-> FALSE,
          tx |-> [opened |-> 1, commits |-> 1, rollbacks |-> 0, closed |-> 1]]
\* _session_scope around a body that started from table pre and left the
\* session at body.tbl, raising iff body.raised.  The external session is
\* yielded as it is.  The internal one commits after the body, and rolls back
\* and re-raises when the body or the commit raised; async with closes it.
SessionScope(pre, body, fail) ==
    IF external
    THEN [tbl |-> body.tbl, raised |-> body.raised, tx |-> NoTx]
    ELSE IF body.raised \/ fail = "commit"
         THEN [tbl |-> pre, raised |-> TRUE,
               tx |-> [opened |-> 1, commits |-> 0, rollbacks |-> 1, closed |-> 1]]
         ELSE [tbl |-> body.tbl, raised |-> FALSE,
               tx |-> [opened |-> 1, commits |-> 1, rollbacks |-> 0, closed |-> 1]]

\* a body's outcome
Done(tbl) == [tbl |-> tbl, raised |-> FALSE]
Raised(tbl) == [tbl |-> tbl, raised |-> TRUE]

\* the commit of an external session is the caller's: it cannot fail in here
FailOk(fail) == fail \in FailPoints /\ (external => fail # "commit")
\* a commit is reached (and can fail) only when the body did not raise
Reached(body, fail) == fail = "commit" => ~body.raised

\* ------------------------------------------------------- the last operation
Idle ==
    [op |-> "idle", args |-> <<>>, ok |-> TRUE, ret |-> None, pre |-> {},
     matched |-> {}, delivered |-> <<>>, tx |-> NoTx, fail |-> "none",
     again |-> FALSE]

Result(op, args, ok, ret, pre, matched, delivered, tx, fail) ==
    [op |-> op, args |-> args, ok |-> ok, ret |-> ret, pre |-> pre,
     matched |-> matched, delivered |-> delivered, tx |-> tx, fail |-> fail,
     again |-> FALSE]

\* no coroutine is suspended: every operation runs from call to return
NoTasks == <<>>

Init ==
    /\ softdelete \in BOOLEAN
    /\ external \in BOOLEAN
    /\ db = {}
    /\ filtered = FALSE
    /\ last = Idle
    /\ tasks = NoTasks

\* the caller takes the result of the last operation
\* ----------------------------------------------------------------- __init__
\* the attributes __init__ looks for in a custom db_class
RequiredAttrs == {"id", "ptype", "v0", "v1", "v2", "v3", "v4", "v5"}
\* the argument db_class: None, or a class that has the attributes attrs
NoClass == [given |-> FALSE, attrs |-> {}]
CustomClass(attrs) == [given |-> TRUE, attrs |-> attrs]
\* before the constructor is called there is no adapter
New == [Idle EXCEPT !.op = "new"]

\* a constructor that never keeps the attribute
InitSoftdeleteNever(db_class, db_class_softdelete_attribute) == FALSE
\* self.softdelete_attribute is not None after __init__: it starts as None and
\* is assigned the argument in the branch of a custom db_class only
InitSoftdelete(db_class, db_class_softdelete_attribute) ==
    db_class.given /\ db_class_softdelete_attribute # None

\* a constructor without the hasattr loop
InitRaisesTypeOnly(db_class, db_class_softdelete_attribute) ==
    IF db_class.given /\ db_class_softdelete_attribute \notin {None, "Boolean"}
    THEN "ValueError" ELSE None
\* the exception __init__ raises (None when it returns): both tests are in
\* the branch of a custom db_class, the type of the attribute first, then
\* hasattr(db_class, attr) for the eight attributes.  The attribute is given
\* by the name of its column type.
InitRaises(db_class, db_class_softdelete_attribute) ==
    IF ~db_class.given THEN None
    ELSE IF db_class_softdelete_attribute \notin {None, "Boolean"} THEN "ValueError"
    ELSE IF ~(RequiredAttrs \subseteq db_class.attrs) THEN "Exception"
    ELSE None

__init__(db_class, db_class_softdelete_attribute, filtered_arg, db_session) ==
    /\ last.op = "new"
    /\ LET exc == InitRaises(db_class, db_class_softdelete_attribute)
       IN  /\ last' = Result("__init__",
                             [db_class |-> db_class,
                              db_class_softdelete_attribute |->
                                  db_class_softdelete_attribute,
                              filtered |-> filtered_arg, db_session |-> db_session],
                             exc = None, exc, db, {}, <<>>, NoTx, "none")
           /\ IF exc = None
              THEN /\ softdelete' = InitSoftdelete(db_class,
                                                   db_class_softdelete_attribute)
                   /\ external' = (db_session # None)
                   /\ filtered' = filtered_arg
              ELSE UNCHANGED <<softdelete, external, filtered>>
    /\ UNCHANGED <<db, tasks>>

\* the caller takes the result and is free to call again; a constructor that
\* raised has produced no adapter to call
Return ==
    /\ last.op \notin {"idle", "new"}
    /\ last.op = "__init__" => last.ok
    /\ last' = Idle
    /\ UNCHANGED <<softdelete, external, db, filtered, tasks>>

\* ------------------------------------------------------------- add_policy
AddPolicyBody(tbl, ptype, rule, fail) ==
    IF fail = "execute" THEN Raised(tbl) ELSE Done(Insert(tbl, ptype, rule))

add_policy(ptype, rule, fail) ==
    /\ last.op = "idle"
    /\ FailOk(fail)
    /\ MaxId(db) < MaxRows
    /\ LET sc == SessionScope(db, AddPolicyBody(db, ptype, rule, fail), fail)
       IN  /\ db' = sc.tbl
           /\ last' = Result("add_policy", [ptype |-> ptype, rule |-> rule],
                             ~sc.raised, None, db, {}, <<>>, sc.tx, fail)
    /\ UNCHANGED <<softdelete, external, filtered, tasks>>

\* ---------------------------------------------------------- add_policies
\* rows = [{"ptype": ptype, "v0": ..}, ..]; one insert statement, in a scope
\* of its own; returns before any session when rules is empty
AddPoliciesBody(tbl, ptype, rules, fail) ==
    IF fail = "execute" THEN Raised(tbl) ELSE Done(InsertAll(tbl, ptype, rules))

AddPoliciesCall(tbl, ptype, rules, fail) ==
    IF rules = <<>>
    THEN [tbl |-> tbl, raised |-> FALSE, tx |-> NoTx]
    ELSE SessionScope(tbl, AddPoliciesBody(tbl, ptype, rules, fail), fail)

add_policies(ptype, rules, fail) ==
    /\ last.op = "idle"
    /\ FailOk(fail)
    /\ MaxId(db) + Len(rules) <= MaxRows
    /\ rules = <<>> => fail = "none"
    /\ LET sc == AddPoliciesCall(db, ptype, rules, fail)
       IN  /\ db' = sc.tbl
           /\ last' = Result("add_policies", [ptype |-> ptype, rules |-> rules],
                             ~sc.raised, None, db, {}, <<>>, sc.tx, fail)
    /\ UNCHANGED <<softdelete, external, filtered, tasks>>

\* ----------------------------------------------------------- the removals
\* a removal that deletes the lines whatever the mode
RemoveAlwaysDelete(tbl, lines) == tbl \ lines
\* hard mode: delete(db_class).where(..); soft mode: select the lines and set
\* the flag of each.  lines are the rows the statement's where clauses match.
Remove(tbl, lines) ==
    IF softdelete THEN Flag(tbl, Ids(lines)) ELSE tbl \ lines

\* a statement without the clause of _softdelete_query
RemovePolicyLinesWithDeleted(tbl, ptype, rule) == MatchValues(tbl, ptype, rule)
\* remove_policy: ptype and every value of rule, positions 0..len(rule)-1
RemovePolicyLines(tbl, ptype, rule) ==
    MatchValues(SoftdeleteQuery(tbl), ptype, rule)

RemovePolicyStep(ptype, rule, fail, again) ==
    /\ FailOk(fail)
    /\ LET lines == RemovePolicyLines(db, ptype, rule)
           body == IF fail = "execute" THEN Raised(db) ELSE Done(Remove(db, lines))
           sc == SessionScope(db, body, fail)
       IN  /\ db' = sc.tbl
           /\ last' = [Result("remove_policy", [ptype |-> ptype, rule |-> rule],
                              ~sc.raised,
                              IF sc.raised THEN None ELSE lines # {},
                              db, IF fail = "execute" THEN {} ELSE Ids(lines),
                              <<>>, sc.tx, fail)
                       EXCEPT !.again = again]
    /\ UNCHANGED <<softdelete, external, filtered, tasks>>

remove_policy(ptype, rule, fail) ==
    /\ last.op = "idle"
    /\ RemovePolicyStep(ptype, rule, fail, FALSE)

\* remove_policy called once more, right after a remove_policy that returned,
\* with the same arguments
remove_policy_again ==
    /\ last.op = "remove_policy" /\ last.ok /\ ~last.again
    /\ RemovePolicyStep(last.args.ptype, last.args.rule, "none", TRUE)

\* rules_zipped = zip(*rules): one tuple of values per position, up to the
\* length of the shortest rule
MinLen(rules) ==
    CHOOSE n \in {Len(rules[k]) : k \in 1..Len(rules)} :
        \A k \in 1..Len(rules) : n <= Len(rules[k])
Zipped(rules) ==
    [i \in 1..MinLen(rules) |-> {rules[k][i] : k \in 1..Len(rules)}]

\* a statement that selects the rows storing one of the listed rules
RemovePoliciesLinesExact(tbl, ptype, rules) ==
    {r \in SoftdeleteQuery(tbl) :
        r.ptype = ptype /\ \E k \in 1..Len(rules) : ToRule(r) = rules[k]}
\* where(ptype == ptype), where(or_(v{i} == v for v in rules_zipped[i]))
RemovePoliciesLines(tbl, ptype, rules) ==
    LET z == Zipped(rules)
    IN  {r \in SoftdeleteQuery(tbl) :
            r.ptype = ptype /\ \A i \in 1..Len(z) : r.v[i] \in z[i]}

RemovePoliciesCall(tbl, ptype, rules, fail) ==
    IF rules = <<>>
    THEN [tbl |-> tbl, raised |-> FALSE, tx |-> NoTx]
    ELSE LET lines == RemovePoliciesLines(tbl, ptype, rules)
             body == IF fail = "execute" THEN Raised(tbl)
                     ELSE Done(Remove(tbl, lines))
         IN  SessionScope(tbl, body, fail)

remove_policies(ptype, rules, fail) ==
    /\ last.op = "idle"
    /\ FailOk(fail)
    /\ rules = <<>> => fail = "none"
    /\ LET sc == RemovePoliciesCall(db, ptype, rules, fail)
       IN  /\ db' = sc.tbl
           /\ last' = Result("remove_policies", [ptype |-> ptype, rules |-> rules],
                             ~sc.raised, None, db,
                             IF rules = <<>> \/ fail = "execute" THEN {}
                             ELSE Ids(RemovePoliciesLines(db, ptype, rules)),
                             <<>>, sc.tx, fail)
    /\ UNCHANGED <<softdelete, external, filtered, tasks>>

\* a check of the start index alone
ValidSpanIndexOnly(field_index, field_values) ==
    0 <= field_index /\ field_index <= 5
\* remove_filtered_policy: the two span checks, inside the scope
ValidSpan(field_index, field_values) ==
    /\ 0 <= field_index /\ field_index <= 5
    /\ 1 <= field_index + Len(field_values)
    /\ field_index + Len(field_values) <= 6

\* a statement that compares the empty string like any other value
RemoveFilteredLinesLiteral(tbl, ptype, field_index, field_values) ==
    {r \in SoftdeleteQuery(tbl) :
        /\ r.ptype = ptype
        /\ \A i \in 1..Len(field_values) : r.v[field_index + i] = field_values[i]}
\* where(ptype == ptype), where(v{field_index + i} == v) for every v != ""
RemoveFilteredLines(tbl, ptype, field_index, field_values) ==
    {r \in SoftdeleteQuery(tbl) :
        /\ r.ptype = ptype
        /\ \A i \in 1..Len(field_values) :
              field_values[i] # "" => r.v[field_index + i] = field_values[i]}

remove_filtered_policy(ptype, field_index, field_values, fail) ==
    /\ last.op = "idle"
    /\ FailOk(fail)
    /\ LET valid == ValidSpan(field_index, field_values)
           lines == IF valid
                    THEN RemoveFilteredLines(db, ptype, field_index, field_values)
                    ELSE {}
           body == IF ~valid THEN Done(db)
                   ELSE IF fail = "execute" THEN Raised(db)
                   ELSE Done(Remove(db, lines))
           sc == SessionScope(db, body, fail)
       IN  /\ ~valid => fail # "execute"
           /\ db' = sc.tbl
           /\ last' = Result("remove_filtered_policy",
                             [ptype |-> ptype, field_index |-> field_index,
                              field_values |-> field_values],
                             ~sc.raised,
                             IF sc.raised THEN None ELSE lines # {},
                             db, IF body.raised THEN {} ELSE Ids(lines),
                             <<>>, sc.tx, fail)
    /\ UNCHANGED <<softdelete, external, filtered, tasks>>

\* ----------------------------------------------------------- update_policy
\* the lines the statement selects: ptype and every value of old_rule
UpdatePolicyLines(tbl, ptype, old_rule) ==
    MatchValues(SoftdeleteQuery(tbl), ptype, old_rule)

\* for index in range(len(longest_rule)): v{index} = new_rule[index], or None
\* from len(new_rule) on
Overwrite(line, old_rule, new_rule) ==
    LET longest == IF Len(old_rule) > Len(new_rule) THEN Len(old_rule)
                   ELSE Len(new_rule)
    IN  [line EXCEPT !.v =
            [i \in 1..NumFields |->
                IF i <= longest
                THEN IF i <= Len(new_rule) THEN new_rule[i] ELSE None
                ELSE line.v[i]]]

\* an update that takes the first selected line, and does nothing when no
\* line is selected
UpdatePolicyBodyFirst(tbl, ptype, old_rule, new_rule, fail) ==
    LET lines == UpdatePolicyLines(tbl, ptype, old_rule)
    IN  IF fail = "execute" THEN Raised(tbl)
        ELSE IF lines = {} THEN Done(tbl)
        ELSE LET line == ById(lines)[1]
             IN  Done((tbl \ {line}) \cup {Overwrite(line, old_rule, new_rule)})
\* result.scalar_one() raises unless exactly one line is selected
UpdatePolicyBody(tbl, ptype, old_rule, new_rule, fail) ==
    LET lines == UpdatePolicyLines(tbl, ptype, old_rule)
    IN  IF fail = "execute" \/ Cardinality(lines) # 1 THEN Raised(tbl)
        ELSE LET line == CHOOSE r \in lines : TRUE
             IN  Done((tbl \ {line}) \cup {Overwrite(line, old_rule, new_rule)})

UpdatePolicyCall(tbl, ptype, old_rule, new_rule, fail) ==
    SessionScope(tbl, UpdatePolicyBody(tbl, ptype, old_rule, new_rule, fail), fail)

update_policy(ptype, old_rule, new_rule, fail) ==
    /\ last.op = "idle"
    /\ FailOk(fail)
    /\ Reached(UpdatePolicyBody(db, ptype, old_rule, new_rule, fail), fail)
    /\ LET sc == UpdatePolicyCall(db, ptype, old_rule, new_rule, fail)
       IN  /\ db' = sc.tbl
           /\ last' = Result("update_policy",
                             [ptype |-> ptype, old_rule |-> old_rule,
                              new_rule |-> new_rule],
                             ~sc.raised, None, db,
                             IF fail = "execute" THEN {}
                             ELSE Ids(UpdatePolicyLines(db, ptype, old_rule)),
                             <<>>, sc.tx, fail)
    /\ UNCHANGED <<softdelete, external, filtered, tasks>>

\* --------------------------------------------------------- update_policies
\* for i in range(len(old_rules)): await self.update_policy(.., old_rules[i],
\* new_rules[i]), each call in a session scope of its own; new_rules[i] raises
\* IndexError when new_rules is the shorter list.  fail is what goes wrong in
\* the scope of pair failAt (no scope when failAt = 0).
RECURSIVE UpdatePoliciesFrom(_, _, _, _, _, _, _, _)
UpdatePoliciesFrom(tbl, ptype, old_rules, new_rules, i, failAt, fail, acc) ==
    IF i > Len(old_rules)
    THEN [tbl |-> tbl, raised |-> FALSE, tx |-> acc.tx, done |-> i - 1,
          matched |-> acc.matched, failed |-> FALSE]
    ELSE IF i > Len(new_rules)
    THEN [tbl |-> tbl, raised |-> TRUE, tx |-> acc.tx, done |-> i - 1,
          matched |-> acc.matched, failed |-> FALSE]
    ELSE LET f == IF i = failAt THEN fail ELSE "none"
             body == UpdatePolicyBody(tbl, ptype, old_rules[i], new_rules[i], f)
             sc == UpdatePolicyCall(tbl, ptype, old_rules[i], new_rules[i], f)
             next == [tx |-> TxSum(acc.tx, sc.tx),
                      matched |-> acc.matched \cup
                          IF f = "execute" THEN {}
                          ELSE Ids(UpdatePolicyLines(tbl, ptype, old_rules[i]))]
         IN  IF sc.raised
             THEN [tbl |-> sc.tbl, raised |-> TRUE, tx |-> next.tx, done |-> i - 1,
                   matched |-> next.matched,
                   failed |-> f = "execute" \/ (f = "commit" /\ ~body.raised)]
             ELSE UpdatePoliciesFrom(sc.tbl, ptype, old_rules, new_rules, i + 1,
                                     failAt, fail, next)

\* the injected failure happens iff the scope of pair failAt is reached
update_policies(ptype, old_rules, new_rules, failAt, fail) ==
    /\ last.op = "idle"
    /\ FailOk(fail)
    /\ failAt \in 0..Len(old_rules)
    /\ (failAt = 0) = (fail = "none")
    /\ LET r == UpdatePoliciesFrom(db, ptype, old_rules, new_rules, 1, failAt, fail,
                                   [tx |-> NoTx, matched |-> {}])
       IN  /\ r.failed = (fail # "none")
           /\ db' = r.tbl
           /\ last' = Result("update_policies",
                             [ptype |-> ptype, old_rules |-> old_rules,
                              new_rules |-> new_rules, failAt |-> failAt,
                              done |-> r.done],
                             ~r.raised, None, db, r.matched, <<>>, r.tx, fail)
    /\ UNCHANGED <<softdelete, external, filtered, tasks>>

\* -------------------------------------------------------------- save_policy
\* for sec in ["p", "g"]: for ptype, ast in model.model[sec].items():
\* for rule in ast.policy: the rules of the model in the order they are saved
Entries(model) ==
    [i \in 1..Len(model.p) |-> [ptype |-> "p", rule |-> model.p[i]]]
    \o [i \in 1..Len(model.g) |-> [ptype |-> "g", rule |-> model.g[i]]]

\* sec = ptype[0]; model.has_policy(sec, ptype, rule)
HasPolicy(model, ptype, rule) ==
    \/ ptype = "p" /\ rule \in Range(model.p)
    \/ ptype = "g" /\ rule \in Range(model.g)

\* hard mode: delete(db_class), then one _save_policy_line per rule
RECURSIVE InsertEntries(_, _)
InsertEntries(tbl, entries) ==
    IF entries = <<>> THEN tbl
    ELSE InsertEntries(Insert(tbl, Head(entries).ptype, Head(entries).rule),
                       Tail(entries))

\* a save that inserts the rules without deleting the rows first
SaveHardBodyNoDelete(tbl, model, fail) ==
    IF fail = "execute" THEN Raised(tbl) ELSE Done(InsertEntries(tbl, Entries(model)))
\* hard mode: delete(db_class), then _save_policy_line for every rule
SaveHardBody(tbl, model, fail) ==
    IF fail = "execute" THEN Raised(tbl) ELSE Done(InsertEntries({}, Entries(model)))

\* soft mode, the lookup of one rule: ptype, the not-deleted lines, and every
\* value of the rule
SaveLookup(tbl, ptype, rule) == MatchValues(SoftdeleteQuery(tbl), ptype, rule)

\* soft mode, the first loop: result.scalar_one_or_none() raises when the
\* lookup selects several lines; the rule is inserted when it selects none
RECURSIVE SaveInsertLoop(_, _, _)
SaveInsertLoop(tbl, entries, matched) ==
    IF entries = <<>> THEN [tbl |-> tbl, raised |-> FALSE, matched |-> matched]
    ELSE LET e == Head(entries)
             found == SaveLookup(tbl, e.ptype, e.rule)
         IN  IF Cardinality(found) > 1
             THEN [tbl |-> tbl, raised |-> TRUE, matched |-> matched \cup Ids(found)]
             ELSE SaveInsertLoop(IF found = {} THEN Insert(tbl, e.ptype, e.rule)
                                 ELSE tbl,
                                 Tail(entries), matched \cup Ids(found))

\* soft mode, the second loop over lines_before_changes, in the order the
\* storage returned them: ptype[0] raises IndexError on an empty ptype; the
\* line is flagged when the model does not hold its rule
RECURSIVE SaveFlagLoop(_, _, _)
SaveFlagLoop(tbl, order, model) ==
    IF order = <<>> THEN Done(tbl)
    ELSE LET line == RowOf(tbl, Head(order))
         IN  IF line.ptype = "" THEN Raised(tbl)
             ELSE SaveFlagLoop(IF HasPolicy(model, line.ptype, ToRule(line))
                               THEN tbl ELSE Flag(tbl, {line.id}),
                               Tail(order), model)

\* the lines the soft mode selects: lines_before_changes and what the
\* lookups find
SaveSoftLines(tbl, model) ==
    Ids(SoftdeleteQuery(tbl)) \cup SaveInsertLoop(tbl, Entries(model), {}).matched

SaveSoftBody(tbl, model, order, fail) ==
    IF fail = "execute" THEN Raised(tbl)
    ELSE LET ins == SaveInsertLoop(tbl, Entries(model), {})
         IN  IF ins.raised THEN Raised(ins.tbl)
             ELSE SaveFlagLoop(ins.tbl, order, model)

\* if self.softdelete_attribute is None: the rewrite; else the reconciliation
SavePolicyBody(tbl, model, order, fail) ==
    IF softdelete THEN SaveSoftBody(tbl, model, order, fail)
    ELSE SaveHardBody(tbl, model, fail)

\* the orders in which a select without order_by may return the lines
Orders(lines) ==
    {o \in SeqsUpTo(Ids(lines), Cardinality(lines)) :
        Len(o) = Cardinality(lines) /\ Distinct(o)}

SavePolicyStep(model, order, fail, again) ==
    /\ FailOk(fail)
    /\ LET body == SavePolicyBody(db, model, order, fail)
           sc == SessionScope(db, body, fail)
       IN  /\ MaxId(body.tbl) <= MaxRows
           /\ Reached(body, fail)
           /\ db' = sc.tbl
           /\ last' = [Result("save_policy", [model |-> model],
                              ~sc.raised, IF sc.raised THEN None ELSE TRUE, db,
                              IF fail = "execute" \/ ~softdelete THEN {}
                              ELSE SaveSoftLines(db, model),
                              <<>>, sc.tx, fail)
                       EXCEPT !.again = again]
    /\ UNCHANGED <<softdelete, external, filtered, tasks>>

save_policy(model, fail) ==
    /\ last.op = "idle"
    /\ \E order \in Orders(SoftdeleteQuery(db)) :
          SavePolicyStep(model, order, fail, FALSE)

\* save_policy called once more, right after a save_policy that returned,
\* with the model unchanged
save_policy_again ==
    /\ last.op = "save_policy" /\ last.ok /\ ~last.again
    /\ \E order \in Orders(SoftdeleteQuery(db)) :
          SavePolicyStep(last.args.model, order, "none", TRUE)

\* -------------------------------------------------------------- the loads
\* persist.load_policy_line(str(line), model) for every line, in the order
\* the result holds them
Deliver(tbl, order) == [i \in 1..Len(order) |-> [id |-> order[i], line |-> Str(RowOf(tbl, order[i]))]]

\* load_policy: select(db_class) and _softdelete_query, no order_by: the
\* storage returns the lines in an order of its choosing
LoadPolicyOrders(tbl) == Orders(SoftdeleteQuery(tbl))

load_policy(fail) ==
    /\ last.op = "idle"
    /\ FailOk(fail)
    /\ \E order \in LoadPolicyOrders(db) :
          LET body == IF fail = "execute" THEN Raised(db) ELSE Done(db)
              sc == SessionScope(db, body, fail)
          IN  /\ db' = sc.tbl
              /\ last' = Result("load_policy", <<>>, ~sc.raised, None, db,
                                IF body.raised THEN {} ELSE Range(order),
                                IF body.raised THEN <<>> ELSE Deliver(db, order),
                                sc.tx, fail)
    /\ UNCHANGED <<softdelete, external, filtered, tasks>>

\* is_filtered: return self._filtered
is_filtered == filtered

\* a Filter as the callers build it: a list of accepted values per slot
FilterSlots == 1..NumFields
\* a query that ignores the filter
FilterQueryAll(rows, filter) == rows
\* filter_query on a Filter of lists: where(attr.in_(list)) for every
\* non-empty list, then order_by(id)
FilterQuery(rows, filter) ==
    {r \in rows :
        /\ filter.ptype # {} => r.ptype \in filter.ptype
        /\ \A i \in FilterSlots : filter.v[i] # {} => r.v[i] \in filter.v[i]}

load_filtered_policy(filter, fail) ==
    /\ last.op = "idle"
    /\ FailOk(fail)
    /\ LET lines == FilterQuery(SoftdeleteQuery(db), filter)
           body == IF fail = "execute" THEN Raised(db) ELSE Done(db)
           sc == SessionScope(db, body, fail)
           order == [i \in 1..Cardinality(lines) |-> ById(lines)[i].id]
       IN  /\ db' = sc.tbl
           /\ filtered' = IF body.raised THEN filtered ELSE TRUE
           /\ last' = Result("load_filtered_policy", [filter |-> filter],
                             ~sc.raised, None, db,
                             IF body.raised THEN {} ELSE Ids(lines),
                             IF body.raised THEN <<>> ELSE Deliver(db, order),
                             sc.tx, fail)
    /\ UNCHANGED <<softdelete, external, tasks>>

\* ------------------------------------------------- update_filtered_policies
\* filter = Filter(); filter.ptype = ptype; for i in range(len(field_values)):
\* if field_index <= i < field_index + len(field_values):
\* filter.v{i} = field_values[i - field_index], else break.  The slots hold
\* strings here; a slot never set keeps the class default, the empty list,
\* written None.
RECURSIVE FilterSetUpTo(_, _, _)
FilterSetUpTo(field_index, n, i) ==
    IF i < n /\ field_index <= i /\ i < field_index + n
    THEN FilterSetUpTo(field_index, n, i + 1) ELSE i

BuildFilter(ptype, field_index, field_values) ==
    LET set == FilterSetUpTo(field_index, Len(field_values), 0)
    IN  [ptype |-> ptype,
         v |-> [i \in 1..NumFields |->
                   IF i - 1 < set THEN field_values[i - field_index] ELSE None]]

\* filter_query on such a filter: a slot of positive length goes to
\* column.in_(<str>), which SQLAlchemy refuses with ArgumentError (in_ takes a
\* list, a select or a bound parameter); an empty string, like an empty
\* list, is skipped
InRaises(slot) == slot # None /\ slot # ""
FilterQueryRaises(filter) ==
    InRaises(filter.ptype) \/ \E i \in FilterSlots : InRaises(filter.v[i])

\* what may go wrong in the storage during update_filtered_policies: in the
\* select, in the scope of remove_policies, in the scope of add_policies, or
\* in the commit of the enclosing scope
FilteredFailPoints == {"none", "read", "remove", "add", "commit"}

\* _update_filtered_policies: the enclosing scope selects the old lines;
\* self.remove_policies and self.add_policies then each run in a session scope
\* of their own
UpdateFilteredCall(tbl, new_rules, filter, fail) ==
    IF fail = "read" \/ FilterQueryRaises(filter)
    THEN [sc |-> SessionScope(tbl, Raised(tbl), "none"), old_rules |-> <<>>,
          lines |-> {}]
    ELSE LET lines == {r \in SoftdeleteQuery(tbl) : r.ptype = filter.ptype}
             old_rules_db == ById(lines)
             old_rules == [i \in 1..Len(old_rules_db) |-> ToRule(old_rules_db[i])]
             rem == RemovePoliciesCall(tbl, filter.ptype, old_rules,
                                       IF fail = "remove" THEN "execute" ELSE "none")
             add == IF rem.raised THEN [tbl |-> rem.tbl, raised |-> TRUE, tx |-> NoTx]
                    ELSE AddPoliciesCall(rem.tbl, filter.ptype, new_rules,
                                         IF fail = "add" THEN "execute" ELSE "none")
             outer == SessionScope(add.tbl, [tbl |-> add.tbl, raised |-> add.raised],
                                   IF fail = "commit" THEN "commit" ELSE "none")
         IN  [sc |-> [tbl |-> outer.tbl, raised |-> outer.raised,
                      tx |-> TxSum(outer.tx, TxSum(rem.tx, add.tx))],
              old_rules |-> old_rules, lines |-> lines]

update_filtered_policies(ptype, new_rules, field_index, field_values, fail) ==
    /\ last.op = "idle"
    /\ fail \in FilteredFailPoints /\ (external => fail # "commit")
    /\ LET filter == BuildFilter(ptype, field_index, field_values)
           r == UpdateFilteredCall(db, new_rules, filter, fail)
       IN  /\ FilterQueryRaises(filter) => fail = "none"
           /\ fail = "remove" => r.old_rules # <<>>
           /\ fail = "add" => new_rules # <<>>
           /\ MaxId(r.sc.tbl) <= MaxRows
           /\ db' = r.sc.tbl
           /\ last' = Result("update_filtered_policies",
                             [ptype |-> ptype, new_rules |-> new_rules,
                              field_index |-> field_index,
                              field_values |-> field_values],
                             ~r.sc.raised,
                             IF r.sc.raised THEN None ELSE r.old_rules,
                             db, Ids(r.lines), <<>>, r.sc.tx, fail)
    /\ UNCHANGED <<softdelete, external, filtered, tasks>>

\* ------------------------------------------------------ the specifications
\* Spec: every operation of the adapter, in any order, on a small pool of
\* arguments.  A model is a record of the rules its sections p and g hold,
\* in the model's own order and without repetition.
CorePTypes == {"p", "g"}
CoreRules == {<<"a">>, <<"a", "b">>}
CoreRuleLists == {<<>>, << <<"a">>, <<"a", "b">> >>}
\* add_policies: also one rule alone and the same rule twice
CoreAddLists == CoreRuleLists \cup {<< <<"a">> >>, << <<"a">>, <<"a">> >>}
\* remove_policies: also two rules whose values, combined, are a stored rule
CoreRemoveLists == CoreRuleLists \cup {<< <<"a", "a">>, <<"b", "b">> >>}
\* update_policies: lists of equal and of different lengths
CoreOldLists ==
    {<<>>, << <<"a", "b">> >>, << <<"a", "b">>, <<"a", "b">> >>,
     << <<"a">>, <<"a", "b">> >>}
CoreNewLists == {<<>>, << <<"a">> >>, << <<"a">>, <<"a">> >>}
CoreModels ==
    {[p |-> ps, g |-> gs] :
        ps \in {<<>>, << <<"a">> >>, << <<"a", "b">>, <<"a">> >>},
        gs \in {<<>>, << <<"a", "b">> >>}}
\* remove_filtered_policy: field_index and field_values, spans that are valid
\* (with and without the empty string, from field 0 and from field 1) and
\* spans that are not (index below 0 or above 5, sum 0, sum 7)
CoreSpans ==
    {<<0, <<"a">>>>, <<0, <<"", "b">>>>, <<1, <<"b">>>>,
     <<0 - 1, <<"a">>>>, <<6, <<"a">>>>, <<0, <<>>>>, <<5, <<"b", "">>>>}
\* update_filtered_policies: the empty policy type and the empty field value
\* are the arguments filter_query accepts
FilteredPTypes == {"p", ""}
FilteredNewLists == {<<>>, << <<"a">> >>}
FilteredFieldIndexes == {0, 1}
FilteredFieldValues == {<<>>, <<"">>, <<"a">>}
NoFilter == [ptype |-> {}, v |-> [i \in FilterSlots |-> {}]]
CoreFilters == {NoFilter, [NoFilter EXCEPT !.ptype = {"p"}, !.v[2] = {"b"}]}

Next ==
    \/ Return
    \/ \E ptype \in CorePTypes, rule \in CoreRules, fail \in FailPoints :
          add_policy(ptype, rule, fail)
    \/ add_policy("", <<"a">>, "none")
    \/ \E ptype \in CorePTypes, rules \in CoreAddLists, fail \in FailPoints :
          add_policies(ptype, rules, fail)
    \/ \E ptype \in CorePTypes, rule \in CoreRules, fail \in FailPoints :
          remove_policy(ptype, rule, fail)
    \/ remove_policy_again
    \/ \E ptype \in CorePTypes, rules \in CoreRemoveLists, fail \in FailPoints :
          remove_policies(ptype, rules, fail)
    \/ \E ptype \in CorePTypes, span \in CoreSpans, fail \in FailPoints :
          remove_filtered_policy(ptype, span[1], span[2], fail)
    \/ \E ptype \in CorePTypes, old_rule \in CoreRules, new_rule \in CoreRules,
          fail \in FailPoints :
          update_policy(ptype, old_rule, new_rule, fail)
    \/ \E ptype \in CorePTypes, old_rules \in CoreOldLists,
          new_rules \in CoreNewLists, failAt \in 0..2, fail \in FailPoints :
          update_policies(ptype, old_rules, new_rules, failAt, fail)
    \/ \E ptype \in FilteredPTypes, new_rules \in FilteredNewLists,
          field_index \in FilteredFieldIndexes, field_values \in FilteredFieldValues,
          fail \in FilteredFailPoints :
          update_filtered_policies(ptype, new_rules, field_index, field_values, fail)
    \/ \E model \in CoreModels, fail \in FailPoints : save_policy(model, fail)
    \/ save_policy_again
    \/ \E fail \in FailPoints : load_policy(fail)
    \/ \E filter \in CoreFilters, fail \in FailPoints :
          load_filtered_policy(filter, fail)

Spec == Init /\ [][Next]_vars

\* SpecLifetime: an adapter from its construction on.  The constructor is
\* called with no class, with a complete custom class and with custom classes
\* that lack one attribute, with no soft-delete attribute, a Boolean one and
\* an Integer one; the adapter it returns then adds, removes and saves.
InitClasses ==
    {NoClass, CustomClass(RequiredAttrs)}
        \cup {CustomClass(RequiredAttrs \ {attr}) : attr \in RequiredAttrs}
InitAttributes == {None, "Boolean", "Integer"}
InitSessions == {None, "session"}

InitNew ==
    /\ softdelete = FALSE
    /\ external = FALSE
    /\ db = {}
    /\ filtered = FALSE
    /\ last = New
    /\ tasks = NoTasks

NextLifetime ==
    \/ \E db_class \in InitClasses, attribute \in InitAttributes,
          filtered_arg \in BOOLEAN, db_session \in InitSessions :
          __init__(db_class, attribute, filtered_arg, db_session)
    \/ Return
    \/ \E ptype \in CorePTypes, rule \in CoreRules, fail \in FailPoints :
          add_policy(ptype, rule, fail)
    \/ \E ptype \in CorePTypes, rule \in CoreRules, fail \in FailPoints :
          remove_policy(ptype, rule, fail)
    \/ \E ptype \in CorePTypes, rules \in CoreRemoveLists, fail \in FailPoints :
          remove_policies(ptype, rules, fail)
    \/ \E ptype \in CorePTypes, span \in CoreSpans, fail \in FailPoints :
          remove_filtered_policy(ptype, span[1], span[2], fail)
    \/ \E model \in CoreModels, fail \in FailPoints : save_policy(model, fail)

SpecLifetime == InitNew /\ [][NextLifetime]_vars

\* SpecRoundTrip: every tuple of one to six strings over the empty string
\* and one other value is written by _save_policy_line, through add_policy and
\* through save_policy, and read back by the save_policy that follows
RoundTripPTypes == {"p", "g"}
RoundTripRules == SeqsUpTo({"", "a"}, NumFields) \ {<<>>}

NextRoundTrip ==
    \/ \E ptype \in RoundTripPTypes, rule \in RoundTripRules :
          add_policy(ptype, rule, "none")
    \/ \E rule \in RoundTripRules :
          save_policy([p |-> <<rule>>, g |-> <<>>], "none")
    \/ save_policy_again

SpecRoundTrip == Init /\ [][NextRoundTrip]_vars

\* SpecShape: rules of one, two and three values are added, and update_policy
\* is called with every pair of them as old_rule and new_rule
ShapeRules == {<<"a">>, <<"a", "b">>, <<"a", "b", "c">>}

NextShape ==
    \/ Return
    \/ \E rule \in ShapeRules, fail \in FailPoints : add_policy("p", rule, fail)
    \/ \E old_rule \in ShapeRules, new_rule \in ShapeRules, fail \in FailPoints :
          update_policy("p", old_rule, new_rule, fail)

SpecShape == Init /\ [][NextShape]_vars

\* ------------------------------------------- save_policy, await by await
\* SpecConcurrent: two save_policy coroutines of one adapter in soft-delete
\* mode with internal sessions, in one event loop.  A coroutine runs from
\* one `await session.execute` to the next, where the other may run; each has
\* its session and transaction.  A statement sees the committed table and
\* what its own session holds pending (autoflush); session.add does not
\* await; the flag loop does not await and its updates go out in the commit.
TaskIds == {1, 2}

StartTask(model) ==
    [pc |-> "select", model |-> model, lines |-> {}, index |-> 1, added |-> <<>>]

\* the table as the session of task t sees it
TaskView(t) == InsertEntries(db, tasks[t].added)

\* result = await session.execute(stmt): lines_before_changes
save_policy_select(t) ==
    /\ tasks[t].pc = "select"
    /\ tasks' = [tasks EXCEPT ![t].lines = SoftdeleteQuery(db), ![t].pc = "lookup"]
    /\ UNCHANGED <<softdelete, external, db, filtered, last>>

\* result = await session.execute(filter_stmt) for the next rule of the
\* model; scalar_one_or_none raises on several lines and the scope rolls
\* back; on no line the rule is added to the session
save_policy_lookup(t) ==
    /\ tasks[t].pc = "lookup"
    /\ tasks[t].index <= Len(Entries(tasks[t].model))
    /\ LET e == Entries(tasks[t].model)[tasks[t].index]
           found == SaveLookup(TaskView(t), e.ptype, e.rule)
       IN  tasks' = IF Cardinality(found) > 1
                    THEN [tasks EXCEPT ![t].pc = "raised", ![t].added = <<>>]
                    ELSE [tasks EXCEPT ![t].index = @ + 1,
                                       ![t].added = IF found = {} THEN Append(@, e)
                                                    ELSE @]
    /\ UNCHANGED <<softdelete, external, db, filtered, last>>

\* after the last lookup: the flag loop over lines_before_changes, then
\* await session.commit() on leaving the scope
save_policy_commit(t) ==
    /\ tasks[t].pc = "lookup"
    /\ tasks[t].index > Len(Entries(tasks[t].model))
    /\ LET lines == tasks[t].lines
           order == [k \in 1..Cardinality(lines) |-> ById(lines)[k].id]
           body == SaveFlagLoop(TaskView(t), order, tasks[t].model)
           sc == SessionScope(db, body, "none")
       IN  /\ MaxId(body.tbl) <= MaxRows
           /\ db' = sc.tbl
           /\ tasks' = [tasks EXCEPT ![t].pc = IF sc.raised THEN "raised" ELSE "done",
                                     ![t].added = <<>>]
    /\ UNCHANGED <<softdelete, external, filtered, last>>

\* the tables the two calls start from: empty, or one rule no model holds
ConcurrentTables == {{}, {NewLine(1, "g", <<"a">>)}}

InitConcurrent ==
    /\ softdelete = TRUE
    /\ external = FALSE
    /\ db \in ConcurrentTables
    /\ filtered = FALSE
    /\ last = Idle
    /\ \E model \in CoreModels : tasks = [t \in TaskIds |-> StartTask(model)]

NextConcurrent ==
    \/ \E t \in TaskIds : save_policy_select(t)
    \/ \E t \in TaskIds : save_policy_lookup(t)
    \/ \E t \in TaskIds : save_policy_commit(t)

SpecConcurrent == InitConcurrent /\ [][NextConcurrent]_vars

\* ---------------------------------------------------------------- the claims
\* the six value columns of a row that stores exactly the tuple rule
Padded(rule) == [i \in 1..NumFields |-> IF i <= Len(rule) THEN rule[i] ELSE None]
\* the not-deleted rows of tbl that store ptype and exactly the tuple rule
LiveRows(tbl, ptype, rule) ==
    {r \in tbl : ~r.del /\ r.ptype = ptype /\ r.v = Padded(rule)}
DeliveredIds == [i \in 1..Len(last.delivered) |-> last.delivered[i].id]
IdsById(tbl) == [i \in 1..Cardinality(tbl) |-> ById(tbl)[i].id]

\* C1: after save_policy completes in soft-delete mode, every rule of the
\* model has exactly one not-deleted row with its policy type and exactly its
\* tuple, a not-deleted row whose rule the model holds is left as it was, and
\* a not-deleted row whose rule the model no longer holds is flagged, not
\* removed.
C1_SaveSoftReconciles ==
    (softdelete /\ last.op = "save_policy" /\ last.ok) =>
        LET model == last.args.model
        IN  /\ \A e \in Range(Entries(model)) :
                  Cardinality(LiveRows(db, e.ptype, e.rule)) = 1
            /\ \A r \in last.pre :
                  ~r.del =>
                      IF HasPolicy(model, r.ptype, ToRule(r)) THEN r \in db
                      ELSE [r EXCEPT !.del = TRUE] \in db

\* C2: in soft-delete mode a row whose flag is true is never delivered by
\* load_policy or load_filtered_policy, never selected by a removal, an
\* update or save_policy, and is left exactly as it was.
C2_DeletedRowsInvisible ==
    softdelete =>
        \A r \in last.pre :
            r.del => /\ r.id \notin last.matched
                     /\ r.id \notin Range(DeliveredIds)
                     /\ r \in db

\* a successful operation selected a row while a flagged row with the same
\* policy type and values was stored
C2_Witness ==
    /\ softdelete /\ last.ok
    /\ \E r \in last.pre, q \in last.pre :
          /\ r.del /\ ~q.del /\ q.id \in last.matched
          /\ q.ptype = r.ptype /\ q.v = r.v

\* C3: in soft-delete mode no operation removes a row (the set of stored ids
\* never shrinks) or clears a flag that is set, and add_policy of a rule whose
\* row is flagged inserts a new row and leaves every stored row as it was.
C3_SoftHistoryGrows ==
    softdelete =>
        /\ Ids(last.pre) \subseteq Ids(db)
        /\ \A r \in last.pre : r.del => RowOf(db, r.id).del
        /\ (last.op = "add_policy" /\ last.ok) =>
              /\ last.pre \subseteq db
              /\ Cardinality(db) = Cardinality(last.pre) + 1

\* add_policy of a rule whose only stored row is flagged
C3_Witness ==
    /\ softdelete /\ last.op = "add_policy" /\ last.ok
    /\ \E r \in last.pre :
          r.del /\ r.ptype = last.args.ptype /\ r.v = Padded(last.args.rule)
    /\ LiveRows(last.pre, last.args.ptype, last.args.rule) = {}

\* C4: with an internally managed session every operation that returns has
\* committed what it did and rolled nothing back, an operation that raises
\* leaves the table as it was before the call, and every session opened is
\* closed.
C4_InternalScopeAtomic ==
    (~external /\ last.op # "idle") =>
        /\ last.tx.closed = last.tx.opened
        /\ last.ok => last.tx.rollbacks = 0 /\ last.tx.commits = last.tx.opened
        /\ ~last.ok => db = last.pre

\* C5: with an external session no operation opens, commits, rolls back or
\* closes a session, and a failure of the storage makes the operation raise.
C5_ExternalSessionUntouched ==
    external => /\ last.tx = NoTx
                /\ last.fail # "none" => ~last.ok

\* update_policies on the external session: a pair was updated, then the
\* storage failed
C5_Witness ==
    /\ external /\ last.op = "update_policies" /\ ~last.ok
    /\ last.args.done >= 1 /\ last.fail = "execute"
    /\ db # last.pre

\* C6: with an internally managed session, update_filtered_policies whose
\* insertion of the new rules fails raises and leaves the table as it was
\* before the call: the removal of the old rules is not committed.
C6_UpdateFilteredAtomic ==
    (~external /\ last.op = "update_filtered_policies" /\ last.fail = "add") =>
        ~last.ok /\ db = last.pre

\* C7: with an internally managed session, update_policies that raises at
\* some pair leaves the table as it was before the call.
C7_UpdatePoliciesAllOrNothing ==
    (~external /\ last.op = "update_policies" /\ ~last.ok) => db = last.pre

\* C8: in hard-delete mode, after save_policy returns the table holds exactly
\* one row per rule of the model's sections p and g (its policy type, its
\* values, the remaining columns NULL) and no other row; with an internally
\* managed session a save_policy that raises leaves the table as it was.
C8_SaveHardRewrites ==
    (~softdelete /\ last.op = "save_policy") =>
        LET entries == Range(Entries(last.args.model))
        IN  /\ last.ok =>
                /\ \A e \in entries : Cardinality(LiveRows(db, e.ptype, e.rule)) = 1
                /\ \A r \in db : \E e \in entries : r.ptype = e.ptype /\ r.v = Padded(e.rule)
                /\ Cardinality(db) = Cardinality(entries)
            /\ (~last.ok /\ ~external) => db = last.pre

\* save_policy of a model with rules in both sections over a table holding a
\* row the model does not hold
C8_Witness ==
    /\ ~softdelete /\ last.op = "save_policy" /\ last.ok
    /\ last.args.model.p # <<>> /\ last.args.model.g # <<>>
    /\ \E r \in last.pre : ~HasPolicy(last.args.model, r.ptype, ToRule(r))

\* C9: in soft-delete mode, save_policy run again right after a save_policy
\* that returned, with the same model, leaves the table as the first run
\* left it.
C9_SaveSoftIdempotent ==
    (softdelete /\ last.op = "save_policy" /\ last.again /\ last.ok) =>
        db = last.pre

\* C10: load_policy delivers the not-deleted rows, each once, in ascending
\* order of id.
C10_LoadInIdOrder ==
    (last.op = "load_policy" /\ last.ok) =>
        DeliveredIds = IdsById({r \in last.pre : ~r.del})

\* C11: load_filtered_policy delivers exactly the not-deleted rows whose value
\* is in the acceptance set of every filter slot (ptype, v0..v5) that is not
\* empty, an empty slot constraining nothing, in ascending order of id, and
\* changes no row.
C11_LoadFilteredDelivers ==
    (last.op = "load_filtered_policy" /\ last.ok) =>
        LET f == last.args.filter
            wanted == {r \in last.pre :
                          /\ ~r.del
                          /\ f.ptype # {} => r.ptype \in f.ptype
                          /\ \A i \in 1..NumFields : f.v[i] # {} => r.v[i] \in f.v[i]}
        IN  /\ DeliveredIds = IdsById(wanted)
            /\ db = last.pre

\* a filter with non-empty slots lets one of two not-deleted rows through
C11_Witness ==
    /\ last.op = "load_filtered_policy" /\ last.ok
    /\ last.args.filter.ptype # {}
    /\ Len(last.delivered) = 1
    /\ Cardinality({r \in last.pre : ~r.del}) = 2

\* C12: is_filtered() is true iff the most recent load that returned was
\* load_filtered_policy: after a load_policy that returned it is false, after
\* a load_filtered_policy that returned it is true.
C12_IsFilteredTracksLastLoad ==
    /\ (last.op = "load_policy" /\ last.ok) => ~is_filtered
    /\ (last.op = "load_filtered_policy" /\ last.ok) => is_filtered

\* C13: in both modes remove_policy returns true iff at least one not-deleted
\* row was removed or flagged by it; called a second time with the same
\* arguments right after, it returns false, changes nothing and does not raise.
C13_RemovePolicyReports ==
    /\ (last.op = "remove_policy" /\ last.ok) =>
          LET affected == {r \in last.pre :
                              /\ ~r.del
                              /\ IF softdelete THEN RowOf(db, r.id).del
                                 ELSE r \notin db}
          IN  /\ last.ret = (affected # {})
              /\ last.again => (last.ret = FALSE /\ db = last.pre)
    /\ (last.op = "remove_policy" /\ last.again) => last.ok

\* the second of two calls in soft-delete mode, the row of the rule flagged
C13_Witness ==
    /\ softdelete /\ last.op = "remove_policy" /\ last.again
    /\ \E r \in last.pre :
          r.del /\ r.ptype = last.args.ptype /\ r.v = Padded(last.args.rule)

\* C14: remove_policy(ptype, rule) removes or flags only rows whose policy
\* type is ptype and whose stored tuple is exactly rule: every other row (a
\* row of ptype whose tuple only starts with the values of rule, a row of
\* another policy type) is left as it was, and when one row stores exactly
\* the rule, exactly one row is affected.
C14_RemovePolicyExact ==
    (last.op = "remove_policy" /\ last.ok) =>
        LET exact == LiveRows(last.pre, last.args.ptype, last.args.rule)
        IN  /\ \A r \in last.pre : r \notin exact => r \in db
            /\ Cardinality(exact) = 1 => Cardinality(last.pre \ db) = 1

\* C15: for a valid span, remove_filtered_policy(ptype, start, values) that
\* returns has removed (hard mode) or flagged (soft mode) exactly the
\* not-deleted rows of ptype whose field start+i is values[i] for every i
\* with values[i] not the empty string, has left every other row as it was,
\* and returns true iff at least one row was affected.
C15_RemoveFilteredExactly ==
    (/\ last.op = "remove_filtered_policy" /\ last.ok
     /\ 0 <= last.args.field_index /\ last.args.field_index <= 5
     /\ 1 <= last.args.field_index + Len(last.args.field_values)
     /\ last.args.field_index + Len(last.args.field_values) <= 6) =>
        LET start == last.args.field_index
            values == last.args.field_values
            wanted == {r \in last.pre :
                          /\ ~r.del /\ r.ptype = last.args.ptype
                          /\ \A i \in 1..Len(values) :
                                values[i] # "" => r.v[start + i] = values[i]}
        IN  /\ db = IF softdelete
                    THEN (last.pre \ wanted) \cup {[r EXCEPT !.del = TRUE] : r \in wanted}
                    ELSE last.pre \ wanted
            /\ last.ret = (wanted # {})

\* an empty string in the values: a row of ptype is affected, another row is
\* not
C15_Witness ==
    /\ last.op = "remove_filtered_policy" /\ last.ok /\ last.ret = TRUE
    /\ last.args.field_values = <<"", "b">>
    /\ \E r \in last.pre : r \in db

\* C16: remove_filtered_policy with a start index outside 0..5, or with start
\* index + number of values outside 1..6, returns false, leaves every row and
\* flag as it was and does not raise.
C16_RemoveFilteredInvalidSpan ==
    (/\ last.op = "remove_filtered_policy"
     /\ \/ last.args.field_index < 0 \/ last.args.field_index > 5
        \/ last.args.field_index + Len(last.args.field_values) < 1
        \/ last.args.field_index + Len(last.args.field_values) > 6) =>
        /\ db = last.pre
        /\ last.fail = "none" => (last.ok /\ last.ret = FALSE)

\* a valid start index with a span that is not valid, on a table with a row
\* of the policy type
C16_Witness ==
    /\ last.op = "remove_filtered_policy" /\ last.ok /\ last.ret = FALSE
    /\ last.args.field_index = 0 /\ last.args.field_values = <<>>
    /\ \E r \in last.pre : ~r.del /\ r.ptype = last.args.ptype

\* C17: remove_policies(ptype, rules) with rules not empty removes (hard) or
\* flags (soft), in one transaction, exactly the not-deleted rows of ptype
\* whose field i is, for each position i the listed rules have, a value some
\* listed rule has at position i (so also a row that combines values of
\* different listed rules); a failure with an internal session leaves the
\* table as it was; with rules empty it changes nothing.
C17_RemovePoliciesPerPosition ==
    (last.op = "remove_policies") =>
        LET rules == last.args.rules
            wanted == {r \in last.pre :
                          /\ ~r.del /\ r.ptype = last.args.ptype
                          /\ \A i \in 1..NumFields :
                                (\A k \in 1..Len(rules) : i <= Len(rules[k])) =>
                                    \E k \in 1..Len(rules) : r.v[i] = rules[k][i]}
        IN  /\ rules = <<>> => (last.ok /\ db = last.pre /\ last.tx = NoTx)
            /\ (rules # <<>> /\ last.ok) =>
                  db = IF softdelete
                       THEN (last.pre \ wanted) \cup {[r EXCEPT !.del = TRUE] : r \in wanted}
                       ELSE last.pre \ wanted
            /\ (rules # <<>> /\ ~external) =>
                  /\ last.tx.opened = 1
                  /\ ~last.ok => db = last.pre

\* a stored rule that is none of the listed rules but combines their values
C17_Witness ==
    /\ last.op = "remove_policies" /\ last.ok
    /\ last.args.rules = << <<"a", "a">>, <<"b", "b">> >>
    /\ \E r \in last.pre :
          /\ ~r.del /\ r.ptype = last.args.ptype /\ ToRule(r) = <<"a", "b">>
          /\ r \notin db

\* C18: update_policy raises and leaves the table as it was whenever the
\* number of not-deleted rows with the policy type and the values of old_rule
\* is zero or more than one, and never changes more than one row.
C18_UpdatePolicyExactlyOne ==
    (last.op = "update_policy") =>
        LET old == last.args.old_rule
            found == {r \in last.pre :
                         /\ ~r.del /\ r.ptype = last.args.ptype
                         /\ \A i \in 1..Len(old) : r.v[i] = old[i]}
        IN  /\ Cardinality(found) # 1 => (~last.ok /\ db = last.pre)
            /\ Cardinality(last.pre \ db) <= 1

\* two not-deleted rows match old_rule, the storage works, the call raises
C18_Witness ==
    /\ last.op = "update_policy" /\ ~last.ok /\ last.fail = "none"
    /\ Cardinality(last.matched) = 2

\* C19: after update_policy(ptype, old, new) returned, one row has changed at
\* most: it keeps its id, its policy type and its flag, its tuple read back
\* (unset slots trimmed) is new, and every other row is as it was.
C19_UpdatePolicyRewrites ==
    (last.op = "update_policy" /\ last.ok) =>
        /\ Ids(db) = Ids(last.pre)
        /\ \E id \in last.matched :
              /\ \A r \in last.pre : r.id # id => r \in db
              /\ RowOf(db, id).del = RowOf(last.pre, id).del
              /\ RowOf(db, id).ptype = RowOf(last.pre, id).ptype
              /\ ToRule(RowOf(db, id)) = last.args.new_rule

\* C20: update_policies raises whenever old_rules and new_rules differ in
\* length, whichever of the two is the longer.
C20_UpdatePoliciesLengths ==
    (/\ last.op = "update_policies"
     /\ Len(last.args.old_rules) # Len(last.args.new_rules)) => ~last.ok

\* C21: update_filtered_policies(ptype, new_rules, start, values) with a span
\* inside the six fields replaces exactly the not-deleted rows of ptype whose
\* field start+i equals values[i] (an empty value matching any), for every
\* start index: it returns the tuples of those rows and leaves every other
\* row as it was.
C21_UpdateFilteredEveryStart ==
    (/\ last.op = "update_filtered_policies" /\ last.ok
     /\ ValidSpan(last.args.field_index, last.args.field_values)) =>
        LET wanted == {r \in last.pre :
                          /\ ~r.del /\ r.ptype = last.args.ptype
                          /\ \A i \in 1..Len(last.args.field_values) :
                                last.args.field_values[i] # "" =>
                                    r.v[last.args.field_index + i]
                                        = last.args.field_values[i]}
        IN  /\ Range(last.ret) = {ToRule(r) : r \in wanted}
            /\ \A r \in last.pre \ wanted : r \in db

\* C22: update_filtered_policies with a start index outside 0..5, or with
\* start index + number of values outside 1..6, removes no row, inserts no
\* row and returns False.
C22_UpdateFilteredInvalidSpan ==
    (/\ last.op = "update_filtered_policies" /\ last.fail = "none"
     /\ ~ValidSpan(last.args.field_index, last.args.field_values)) =>
        /\ db = last.pre
        /\ last.ok /\ last.ret = FALSE

\* C23: add_policies(ptype, rules) that returned has inserted one new
\* not-deleted row of ptype per element of rules, with ids no stored row had
\* and with the slots beyond the rule's length unset, an equal rule being
\* stored already or occurring twice in rules making no difference; every row
\* stored before is unchanged, and with rules empty the table is unchanged.
C23_AddPoliciesOneRowEach ==
    (last.op = "add_policies" /\ last.ok) =>
        LET rules == last.args.rules
            new == db \ last.pre
        IN  /\ last.pre \subseteq db
            /\ Cardinality(new) = Len(rules)
            /\ \A r \in new :
                  r.id \notin Ids(last.pre) /\ ~r.del /\ r.ptype = last.args.ptype
            /\ \A k \in 1..Len(rules) :
                  Cardinality({r \in new : r.v = Padded(rules[k])})
                      = Cardinality({j \in 1..Len(rules) : rules[j] = rules[k]})

\* add_policies has inserted a rule that a not-deleted row already stored
C23_Witness ==
    /\ last.op = "add_policies" /\ last.ok /\ last.args.rules = << <<"a">> >>
    /\ LiveRows(last.pre, last.args.ptype, <<"a">>) # {}
    /\ Cardinality(LiveRows(db, last.args.ptype, <<"a">>)) = 2

\* C24 (as the source has it): when a custom row class is supplied, the
\* constructor raises whenever the supplied soft-delete attribute is not of
\* Boolean type and whenever the class lacks one of id, ptype, v0..v5; it
\* produces no adapter then.
C24_InitRejectsCustomClass ==
    (/\ last.op = "__init__" /\ last.args.db_class.given
     /\ \/ last.args.db_class_softdelete_attribute \notin {None, "Boolean"}
        \/ ~(RequiredAttrs \subseteq last.args.db_class.attrs)) =>
        /\ ~last.ok /\ last.ret \in {"ValueError", "Exception"}
        /\ ~ENABLED Return

\* the constructor has refused a custom class that lacks an attribute
C24_Witness ==
    /\ last.op = "__init__" /\ ~last.ok /\ last.ret = "Exception"
    /\ last.args.db_class_softdelete_attribute = "Boolean"

\* C24 (as stated): the constructor raises whenever the supplied soft-delete
\* attribute is not of Boolean type, and whenever a supplied custom row class
\* lacks one of id, ptype, v0..v5.
C24_InitRejects ==
    (/\ last.op = "__init__"
     /\ \/ last.args.db_class_softdelete_attribute \notin {None, "Boolean"}
        \/ /\ last.args.db_class.given
           /\ ~(RequiredAttrs \subseteq last.args.db_class.attrs)) => ~last.ok

\* C28 (as the source has it): an adapter constructed with a custom row class
\* and a soft-delete attribute runs in soft-delete mode from then on, and no
\* operation of an adapter in soft-delete mode takes a row out of the table.
C28_SoftModeWithCustomClass ==
    /\ []((/\ last.op = "__init__" /\ last.ok
           /\ last.args.db_class.given
           /\ last.args.db_class_softdelete_attribute # None) => softdelete)
    /\ [][last.op # "new" =>
             /\ softdelete' = softdelete
             /\ softdelete => Ids(db) \subseteq Ids(db')]_vars

\* an adapter in soft-delete mode has removed a rule: the row is flagged
C28_Witness ==
    /\ softdelete /\ last.ok /\ last.matched # {}
    /\ last.op \in {"remove_policy", "remove_policies", "remove_filtered_policy"}
    /\ \A id \in last.matched : id \in Ids(db) /\ RowOf(db, id).del

\* C28 (as stated): an adapter constructed with a soft-delete attribute runs in
\* soft-delete mode, with or without a custom row class.
C28_SoftModeWheneverSupplied ==
    (/\ last.op = "__init__" /\ last.ok
     /\ last.args.db_class_softdelete_attribute # None) => softdelete

\* C25: for every policy type and every tuple of one to six strings, the
\* empty string included, the row add_policy writes holds the tuple in its
\* first slots and has exactly the slots beyond the tuple's length unset, and
\* reading the row as save_policy and update_filtered_policies read it gives
\* the tuple back; the rows a save_policy leaves not deleted read back as the
\* rules of its model.
C25_WriteReadRoundTrip ==
    /\ (last.op = "add_policy" /\ last.ok) =>
          \E r \in db :
              /\ r \notin last.pre /\ db = last.pre \cup {r}
              /\ r.ptype = last.args.ptype
              /\ ToRule(r) = last.args.rule
              /\ \A i \in 1..NumFields :
                    (r.v[i] = None) = (i > Len(last.args.rule))
    /\ (last.op = "save_policy" /\ last.ok) =>
          {[ptype |-> r.ptype, rule |-> ToRule(r)] : r \in {x \in db : ~x.del}}
              = Range(Entries(last.args.model))

\* a tuple that ends in empty strings has been written and read back
C25_Witness ==
    /\ last.op = "add_policy" /\ last.ok /\ last.args.rule = <<"a", "", "">>
    /\ \E r \in db \ last.pre : ToRule(r) = <<"a", "", "">> /\ r.v[4] = None

\* C26: every stored row has the trailing-unset shape, after any sequence of
\* operations: when slot i is unset, every slot after i is unset; in
\* particular update_policy never leaves an unset slot before a set one.
C26_TrailingUnsetShape ==
    \A r \in db : \A i \in 1..NumFields, j \in 1..NumFields :
        (i < j /\ r.v[i] = None) => r.v[j] = None

\* C27: when two save_policy calls in soft-delete mode for the same model
\* interleave at their awaits, each in its own internal transaction, then
\* after both have committed no rule of the model has been inserted twice:
\* no rule has more than one not-deleted row.
C27_ConcurrentSaveNoDuplicate ==
    (tasks # NoTasks /\ \A t \in DOMAIN tasks : tasks[t].pc = "done") =>
        \A t \in DOMAIN tasks :
            \A e \in Range(Entries(tasks[t].model)) :
                Cardinality(LiveRows(db, e.ptype, e.rule)) <= 1
====
